---- MODULE Spec2Model ----
(***************************************************************************)
(* A model of eb90-rs: the EB90 frame parser over a bounded ring buffer    *)
(* (src/src/parser.rs), the CRC-16/ARC checksum (src/src/crc.rs) and the   *)
(* tokio codec built on them (src/src/codec.rs).                           *)
(*                                                                         *)
(* Bytes are the integers 0..255, byte strings are sequences.  The ring    *)
(* buffer is kept as its logical content `buf` and the physical index      *)
(* `front` of its first byte: the two slices heapless::Deque::as_slices    *)
(* returns are a function of the two (see data).                           *)
(***************************************************************************)
EXTENDS Integers, Sequences, FiniteSets, TLC

VARIABLES
    cap,      \* Buffer::capacity(): fixed when the buffer is constructed
    front,    \* heapless::Deque.front: physical index of the first byte
    buf,      \* the logical content of the deque, oldest byte first
    src,      \* the caller's input not yet accepted by fill (codec: BytesMut src)
    res,      \* what the last read returned; a Frame or Junk is a token in the caller's hand
    op,       \* the last operation: its name, its argument and its return value
    offered,  \* how many inputs the caller has obtained so far
    sent,     \* harness: the bodies (or the scenario) the test put on the wire
    got,      \* harness: the results the test collected, in order
    dst       \* Encoder: the destination BytesMut

vars == <<cap, front, buf, src, res, op, offered, sent, got, dst>>

----------------------------------------------------------------------------
(* Bounds of the model *)

\* heapless::Deque<u8, N>: the N of the parser specifications
Cap == 13
\* the capacity of the Decoder scenario, which must hold two frames and junk
DecoderCap == 20
\* the longest body put on the wire
MaxBody == 2
\* how many inputs the caller obtains in one behaviour
MaxItems == 3
\* heapless::Deque<u8, N>: the N of the byte-by-byte specification
ScanCap == 8

----------------------------------------------------------------------------
(* lib.rs *)

STX == <<235, 144>>
ETX == <<197, 121>>
LEN_SIZE == 2
CRC_SIZE == 2
HEADER_SIZE == Len(STX) + LEN_SIZE
FOOTER_SIZE == CRC_SIZE + Len(ETX)

\* u16::MAX
U16Max == 65535

Min(a, b) == IF a < b THEN a ELSE b

\* input[n..]
Drop(s, n) == SubSeq(s, n + 1, Len(s))
\* input[..n]
Take(s, n) == SubSeq(s, 1, n)

\* u16::to_be_bytes
to_be_bytes(v) == <<v \div 256, v % 256>>
\* u16::from_be_bytes
from_be_bytes(hi, lo) == hi * 256 + lo

----------------------------------------------------------------------------
(* crc.rs: crc::Crc::<u16>::new(&CRC_16_ARC): width 16, poly 0x8005,        *)
(* init 0, refin and refout, xorout 0: the reflected algorithm with the    *)
(* reversed polynomial 0xA001.                                             *)

\* bitwise exclusive or of two naturals, bit by bit from the lowest
RECURSIVE XorBits(_, _)
XorBits(a, b) ==
    IF a = 0 THEN b
    ELSE IF b = 0 THEN a
    ELSE ((a + b) % 2) + 2 * XorBits(a \div 2, b \div 2)

\* a ^ b; the operands are bound to their values first, so that each is
\* computed once
Xor(a, b) == CHOOSE r \in {XorBits(x, y) : x \in {a}, y \in {b}} : TRUE

RECURSIVE CrcShift(_, _)
CrcShift(crc, k) ==
    IF k = 0 THEN crc
    ELSE CHOOSE r \in {CrcShift(IF c % 2 = 1 THEN Xor(c \div 2, 40961) ELSE c \div 2, k - 1) :
                           c \in {crc}} : TRUE

\* one byte's remainder: the entry of the crate's lookup table
CrcTable == [b \in 0..255 |-> CrcShift(b, 8)]

\* Digest::update: feed the bytes of one slice into the running value
RECURSIVE DigestUpdate(_, _)
DigestUpdate(crc, bytes) ==
    IF bytes = <<>> THEN crc
    ELSE CHOOSE r \in {DigestUpdate(Xor(c \div 256, CrcTable[Xor(c % 256, Head(s))]), Tail(s)) :
                           c \in {crc}, s \in {bytes}} : TRUE

\* Crc::checksum: digest, update, finalize (xorout 0)
Checksum(bytes) == DigestUpdate(0, bytes)

----------------------------------------------------------------------------
(* codec.rs: Encoder *)

\* Encoder::encode: the STX is appended before the length is checked
encode(item, d) ==
    LET d1 == d \o STX
    IN  IF Len(item) > U16Max
        THEN [result |-> "Err", dst |-> d1]
        ELSE [result |-> "Ok",
              dst |-> (((d1 \o to_be_bytes(Len(item))) \o item)
                        \o to_be_bytes(Checksum(item))) \o ETX]

----------------------------------------------------------------------------
(* parser.rs: Buffer for heapless::Deque<u8, N>, and the slice helpers.     *)
(* f is the deque's front index and b its logical content.                 *)

\* Buffer::data: heapless::Deque::as_slices, the stored bytes from front to
\* the end of the storage, then the ones that wrapped to its start
data(f, b) ==
    LET k == Min(Len(b), cap - f)
    IN  <<Take(b, k), Drop(b, k)>>

\* Parser::is_full
is_full == Len(buf) = cap

\* slices_start: the slice pair from logical offset start on
slices_start(s, start) ==
    IF start < Len(s[1])
    THEN <<Drop(s[1], start), s[2]>>
    ELSE <<<<>>, Drop(s[2], start - Len(s[1]))>>

\* slices_endx: the slice pair up to logical offset endx; the else branch
\* returns an empty first slice
slices_endx(s, endx) ==
    IF endx <= Len(s[1])
    THEN <<Take(s[1], endx), <<>>>>
    ELSE <<<<>>, Take(s[2], endx - Len(s[1]))>>

\* slices_read_u16: the big-endian u16 at logical offset index
slices_read_u16(s, index) ==
    LET a == s[1]
        b == s[2]
        t == index + 1
    IN  IF Len(a) > t THEN from_be_bytes(a[index + 1], a[t + 1])
        ELSE IF Len(a) < t THEN from_be_bytes(b[index - Len(a) + 1], b[t - Len(a) + 1])
        ELSE from_be_bytes(a[index + 1], b[1])

\* slice.windows(2).position(|win| win == STX): -1 for None
WindowsPosition(s) ==
    LET hits == {p \in 0..(Len(s) - 2) : <<s[p + 1], s[p + 2]>> = STX}
    IN  IF hits = {} THEN -1 ELSE CHOOSE p \in hits : \A q \in hits : p <= q

\* Parser::find_stx: -1 for None.  The STX that straddles the two slices is
\* looked for only when the first slice has odd length
find_stx(f, b) ==
    LET buf_a == data(f, b)[1]
        buf_b == data(f, b)[2]
    IN  IF WindowsPosition(buf_a) >= 0 THEN WindowsPosition(buf_a)
        ELSE IF /\ Len(buf_a) % 2 = 1
                /\ buf_b # <<>>
                /\ <<buf_a[Len(buf_a)], buf_b[1]>> = STX
             THEN Len(buf_a) - 1
        ELSE IF WindowsPosition(buf_b) >= 0 THEN WindowsPosition(buf_b) + Len(buf_a)
        ELSE -1

\* mutant of max_frame_size: whatever the length field can announce
max_frame_size_of_field == U16Max + HEADER_SIZE + FOOTER_SIZE

\* Parser::max_frame_size
max_frame_size == cap

\* Parser::body_size
body_size(f, b) == slices_read_u16(data(f, b), Len(STX))

(* What read returns.  A Frame carries FrameToken.body_size in n, a Junk    *)
(* carries ConsumeToken.len in n and the JunkKind in junk.                 *)
Incomplete == [kind |-> "Incomplete", junk |-> "-", n |-> 0]
FrameToken(n) == [kind |-> "Frame", junk |-> "-", n |-> n]
\* mutant of Junk: the token names no bytes
JunkEmptyToken(n, k) == [kind |-> "Junk", junk |-> k, n |-> 0]

Junk(n, k) == [kind |-> "Junk", junk |-> k, n |-> n]
\* no result in hand: before the first read, or the token was consumed
NoToken == [kind |-> "None", junk |-> "-", n |-> 0]

\* mutant of read: the checksum is compared before the end marker
read_crc_first(f, b) ==
    IF Len(b) < HEADER_SIZE + FOOTER_SIZE THEN Incomplete
    ELSE IF find_stx(f, b) = 0 THEN
        LET frame_size == body_size(f, b) + HEADER_SIZE + FOOTER_SIZE
        IN  IF frame_size > max_frame_size THEN Junk(Len(STX), "InvalidLength")
            ELSE IF Len(b) < frame_size THEN Incomplete
            ELSE LET tail == slices_start(data(f, b), HEADER_SIZE)
                     footer == slices_start(tail, body_size(f, b))
                     body == slices_endx(tail, body_size(f, b))
                     expected_crc == slices_read_u16(footer, 0)
                     etx == slices_read_u16(footer, CRC_SIZE)
                     actual_crc == DigestUpdate(DigestUpdate(0, body[1]), body[2])
                 IN  IF expected_crc # actual_crc
                     THEN Junk(Len(STX), "InvalidCrc")
                     ELSE IF etx # from_be_bytes(ETX[1], ETX[2])
                     THEN Junk(Len(STX), "InvalidEtx")
                     ELSE FrameToken(body_size(f, b))
    ELSE IF find_stx(f, b) > 0 THEN Junk(find_stx(f, b), "InvalidStx")
    ELSE Junk(Len(b) - (Len(STX) - 1), "InvalidStx")

\* Parser::read
read(f, b) ==
    IF Len(b) < HEADER_SIZE + FOOTER_SIZE THEN Incomplete
    ELSE IF find_stx(f, b) = 0 THEN
        LET frame_size == body_size(f, b) + HEADER_SIZE + FOOTER_SIZE
        IN  IF frame_size > max_frame_size THEN Junk(Len(STX), "InvalidLength")
            ELSE IF Len(b) < frame_size THEN Incomplete
            ELSE LET tail == slices_start(data(f, b), HEADER_SIZE)
                     footer == slices_start(tail, body_size(f, b))
                     body == slices_endx(tail, body_size(f, b))
                     expected_crc == slices_read_u16(footer, 0)
                     etx == slices_read_u16(footer, CRC_SIZE)
                     actual_crc == DigestUpdate(DigestUpdate(0, body[1]), body[2])
                 IN  IF etx # from_be_bytes(ETX[1], ETX[2])
                     THEN Junk(Len(STX), "InvalidEtx")
                     ELSE IF expected_crc # actual_crc
                     THEN Junk(Len(STX), "InvalidCrc")
                     ELSE FrameToken(body_size(f, b))
    ELSE IF find_stx(f, b) > 0 THEN Junk(find_stx(f, b), "InvalidStx")
    ELSE Junk(Len(b) - (Len(STX) - 1), "InvalidStx")

\* Parser::get_body
get_body(f, b, token) == slices_endx(slices_start(data(f, b), HEADER_SIZE), token.n)

\* make_contiguous / BytesMut::extend_from_slice twice: the pair as one string
make_contiguous(s) == s[1] \o s[2]

\* mutant of ConsumeLen: the footer is left out of the frame's size
ConsumeLenNoFooter(r) == IF r.kind = "Frame" THEN r.n + HEADER_SIZE ELSE r.n

\* From<FrameToken> for ConsumeToken, or the junk token itself: ConsumeToken.len
ConsumeLen(r) == IF r.kind = "Frame" THEN r.n + HEADER_SIZE + FOOTER_SIZE ELSE r.n

\* mutant of copy_len: the free space is not taken into account
copy_len_unbounded(b, input) == Len(input)

\* Parser::fill: how many bytes of input the buffer takes
copy_len(b, input) == Min(Len(input), cap - Len(b))

\* the deque after Buffer::consume(size): size pops move front round the ring
PopFront(f, size) == (f + size) % cap

----------------------------------------------------------------------------
(* The bytes on the wire *)

\* the bodies put on the wire, two of every length: all ones, and a zero
\* followed by ones.  CRC-16/ARC starts from 0, so a leading zero byte does
\* not change the checksum: Checksum(<<0, 1>>) = Checksum(<<1>>)
Ones(n) == [i \in 1..n |-> 1]
LeadZero(n) == [i \in 1..n |-> IF i = 1 THEN 0 ELSE 1]
Bodies == {Ones(n) : n \in 0..MaxBody} \cup {LeadZero(n) : n \in 0..MaxBody}

\* a candidate frame with any checksum field and end marker
Candidate(body, crc, etx) ==
    STX \o to_be_bytes(Len(body)) \o body \o to_be_bytes(crc) \o etx

\* valid frames: what the encoder emits
ValidFrames == {encode(b, <<>>).dst : b \in Bodies}

\* one body byte changed, the checksum not recomputed
DiffersInOne(b, c) ==
    /\ Len(b) = Len(c)
    /\ Cardinality({i \in 1..Len(b) : b[i] # c[i]}) = 1
CrcTampered ==
    {Candidate(p[2], Checksum(p[1]), ETX) :
        p \in {q \in Bodies \X Bodies : DiffersInOne(q[1], q[2])}}

\* the end marker corrupted, with the checksum right or wrong
EtxTampered ==
    UNION {{Candidate(b, crc, <<ETX[1], 0>>) : crc \in {Checksum(b), Checksum(b \o <<1>>)}} :
           b \in Bodies}

\* a header announcing a frame that cannot fit: one byte too long, and a
\* length whose high byte is set
Oversized == {STX \o to_be_bytes(l) : l \in {Cap - HEADER_SIZE - FOOTER_SIZE + 1, 256}}

\* bytes that are no frame: single bytes, among them the halves of STX, and
\* a run long enough to be read on its own
JunkPieces == {<<0>>, <<STX[1]>>, <<STX[2]>>, <<0, 0, 0, 0, STX[1]>>}

Wire == ValidFrames \cup Oversized \cup JunkPieces

TamperedWire == ValidFrames \cup CrcTampered \cup EtxTampered

----------------------------------------------------------------------------
(* The parser driven by a caller: Parser<heapless::Deque<u8, Cap>> *)

Op(name, n, ret) == [name |-> name, n |-> n, ret |-> ret]

\* Parser::with_buffer(heapless::Deque::new()): empty, front = back = 0
Init ==
    /\ cap = Cap
    /\ front = 0
    /\ buf = <<>>
    /\ src = <<>>
    /\ res = NoToken
    /\ op = Op("new", 0, 0)
    /\ offered = 0
    /\ sent = <<>>
    /\ got = <<>>
    /\ dst = <<>>

\* the caller obtains the next bytes from the transport
Offer(item) ==
    /\ src = <<>>
    /\ offered < MaxItems
    /\ src' = item
    /\ offered' = offered + 1
    /\ UNCHANGED <<cap, front, buf, res, op, sent, got, dst>>

\* Parser::fill(&src[..n]) and Buffer::write; the caller keeps what was not
\* accepted and offers it again
Fill(n) ==
    /\ n \in 1..Len(src)
    /\ op.name # "panic"
    /\ LET input == Take(src, n)
           accepted == copy_len(buf, input)
       IN  /\ buf' = buf \o Take(input, accepted)
           /\ src' = Drop(src, accepted)
           /\ op' = Op("fill", n, accepted)
    /\ UNCHANGED <<cap, front, res, offered, sent, got, dst>>

\* mutant of Read: a read that skips the junk it finds
ReadEvicting ==
    /\ op.name # "panic"
    /\ res' = read(front, buf)
    /\ op' = Op("read", 0, 0)
    /\ buf' = IF read(front, buf).kind = "Junk" THEN Drop(buf, read(front, buf).n) ELSE buf
    /\ front' = IF read(front, buf).kind = "Junk" THEN PopFront(front, read(front, buf).n) ELSE front
    /\ UNCHANGED <<cap, src, offered, sent, got, dst>>

\* Parser::read: takes &self
Read ==
    /\ op.name # "panic"
    /\ res' = read(front, buf)
    /\ op' = Op("read", 0, 0)
    /\ UNCHANGED <<cap, front, buf, src, offered, sent, got, dst>>

\* Parser::consume(token) and Buffer::consume: the assert, then size pops
\* of the front.  The token is moved into the call
ConsumeToken ==
    /\ res.kind \in {"Frame", "Junk"}
    /\ op.name # "panic"
    /\ LET size == ConsumeLen(res)
       IN  IF Len(buf) >= size
           THEN /\ buf' = Drop(buf, size)
                /\ front' = PopFront(front, size)
                /\ op' = Op("consume", size, 0)
           ELSE /\ op' = Op("panic", size, 0)
                /\ UNCHANGED <<buf, front>>
    /\ res' = NoToken
    /\ UNCHANGED <<cap, src, offered>>

Consume == ConsumeToken /\ UNCHANGED <<sent, got, dst>>

\* the chunks the caller hands to fill: one byte, or all it holds
ChunkSizes == {1, Len(src)}

Next ==
    \/ \E item \in Wire : Offer(item)
    \/ \E n \in ChunkSizes : Fill(n)
    \/ Read
    \/ Consume

Spec == Init /\ [][Next]_vars

(* The same caller on a wire that carries tampered frames *)
NextTampered ==
    \/ \E item \in TamperedWire : Offer(item)
    \/ \E n \in ChunkSizes : Fill(n)
    \/ Read
    \/ Consume

SpecTampered == Init /\ [][NextTampered]_vars

(* The same caller on a line that delivers single bytes without end: zero   *)
(* bytes and the two halves of STX, in any order, into a small ring        *)
ScanBytes == {0, STX[1], STX[2]}

ScanInit ==
    /\ cap = ScanCap
    /\ front = 0
    /\ buf = <<>>
    /\ src = <<>>
    /\ res = NoToken
    /\ op = Op("new", 0, 0)
    /\ offered = 0
    /\ sent = <<>>
    /\ got = <<>>
    /\ dst = <<>>

\* the line delivers one more byte
Arrive(byte) ==
    /\ src = <<>>
    /\ src' = <<byte>>
    /\ UNCHANGED <<cap, front, buf, res, op, offered, sent, got, dst>>

NextScan ==
    \/ \E byte \in ScanBytes : Arrive(byte)
    \/ \E n \in ChunkSizes : Fill(n)
    \/ Read
    \/ Consume

SpecScan == ScanInit /\ [][NextScan]_vars

----------------------------------------------------------------------------
(* parser.rs, tests::test_double_input: valid frames back to back, filled   *)
(* in chunks; after every fill the caller reads and consumes until read    *)
(* returns Incomplete, then offers what fill did not take.  sent holds     *)
(* the bodies on the wire that no read has returned yet, got the last      *)
(* thing the loop saw beside what the test expects there.                  *)

\* the transport delivers the next encoded frame
SendFrame(body) ==
    /\ src = <<>>
    /\ offered < MaxItems
    /\ src' = encode(body, <<>>).dst
    /\ sent' = Append(sent, body)
    /\ offered' = offered + 1
    /\ UNCHANGED <<cap, front, buf, res, op, got, dst>>

\* rdr.fill(seg): at the start, or once the loop below has hit Incomplete
DrainFill(n) ==
    /\ op.name = "new" \/ (op.name = "read" /\ res = Incomplete)
    /\ Fill(n)

\* loop { match rdr.read() ...
DrainRead ==
    /\ op.name \in {"fill", "consume"}
    /\ Read

Seen(r, body, want) == [kind |-> r.kind, junk |-> r.junk, body |-> body, want |-> want]

\* Ok(ft) => found.push(make_contiguous(rdr.get_body(&ft))); rdr.consume(ft.into())
\* Err(Junk { token, .. }) => rdr.consume(token)
DrainConsume ==
    /\ op.name = "read"
    /\ ConsumeToken
    /\ IF res.kind = "Frame"
       THEN /\ got' = <<Seen(res, make_contiguous(get_body(front, buf, res)), Take(sent, Min(1, Len(sent))))>>
            /\ sent' = Drop(sent, Min(1, Len(sent)))
       ELSE /\ got' = <<Seen(res, <<>>, <<>>)>>
            /\ sent' = sent
    /\ UNCHANGED dst

NextFrames ==
    \/ \E body \in Bodies : SendFrame(body)
    \/ \E n \in ChunkSizes : DrainFill(n)
    \/ DrainRead
    \/ DrainConsume

SpecFrames == Init /\ [][NextFrames]_vars

(* A caller that keeps a junk token.  ConsumeToken holds a plain length    *)
(* and borrows nothing, so the caller may put the token of one read aside  *)
(* (in got), go on with fill, read and consume, and hand the kept token    *)
(* to consume later.                                                       *)

\* the caller puts the junk token it was given aside
Keep ==
    /\ res.kind = "Junk"
    /\ got = <<>>
    /\ op.name # "panic"
    /\ got' = <<res>>
    /\ res' = NoToken
    /\ UNCHANGED <<cap, front, buf, src, op, offered, sent, dst>>

\* mutant of ConsumeKept: evicts what there is and goes on
ConsumeKeptSaturating ==
    /\ got # <<>>
    /\ res.kind # "Frame"
    /\ op.name # "panic"
    /\ LET size == Min(got[1].n, Len(buf))
       IN  /\ buf' = Drop(buf, size)
           /\ front' = PopFront(front, size)
           /\ op' = Op("consume", got[1].n, 0)
    /\ got' = <<>>
    /\ UNCHANGED <<cap, src, res, offered, sent, dst>>

\* Parser::consume(kept) and Buffer::consume: the assert, then size pops
ConsumeKept ==
    /\ got # <<>>
    /\ res.kind # "Frame"
    /\ op.name # "panic"
    /\ LET size == got[1].n
       IN  IF Len(buf) >= size
           THEN /\ buf' = Drop(buf, size)
                /\ front' = PopFront(front, size)
                /\ op' = Op("consume", size, 0)
           ELSE /\ op' = Op("panic", size, 0)
                /\ UNCHANGED <<buf, front>>
    /\ got' = <<>>
    /\ UNCHANGED <<cap, src, res, offered, sent, dst>>

NextStale ==
    \/ \E item \in Wire : Offer(item)
    \/ Fill(Len(src))
    \/ Read
    \/ Consume
    \/ Keep
    \/ ConsumeKept

SpecStale == Init /\ [][NextStale]_vars

(* The drain loop of tests::test_double_input on a wire that carries junk   *)
(* and oversized headers as well: after a fill the caller reads and        *)
(* consumes, and fills again only once read has returned Incomplete.  The  *)
(* loop is a loop of the program: it keeps running.                        *)

\* Ok(ft) => rdr.consume(ft.into()), Err(Junk { token, .. }) => rdr.consume(token)
DrainEvict ==
    /\ op.name = "read"
    /\ Consume

NextDrain ==
    \/ \E item \in Wire : Offer(item)
    \/ \E n \in ChunkSizes : DrainFill(n)
    \/ DrainRead
    \/ DrainEvict

SpecDrain == Init /\ [][NextDrain]_vars /\ WF_vars(DrainRead) /\ WF_vars(DrainEvict)

----------------------------------------------------------------------------
(* codec.rs: Decoder<B>, driven as tests::test drives it.  The decoder is   *)
(* first used on whole frames, which moves the ring; then the stream       *)
(* encode(first) ++ junk ++ encode(last) arrives and decode is called      *)
(* until four results are collected in got.  sent is <<first, junk, last>>. *)

Decoded(kind, junk, body) == [kind |-> kind, junk |-> junk, body |-> body]

\* Decoder::new(buf)
DecoderInit ==
    /\ cap = DecoderCap
    /\ front = 0
    /\ buf = <<>>
    /\ src = <<>>
    /\ res = NoToken
    /\ op = Op("new", 0, 0)
    /\ offered = 0
    /\ sent = <<>>
    /\ got = <<>>
    /\ dst = <<>>

\* mutant of DecodeResult: the source is emptied whatever fill accepted
DecodeResultClearing ==
    LET filled_len == copy_len(buf, src)
        b1 == buf \o Take(src, filled_len)
        r == read(front, b1)
        size == ConsumeLen(r)
    IN  [filled |-> filled_len,
         src |-> <<>>,
         panic |-> r.kind # "Incomplete" /\ Len(b1) < size,
         buf |-> IF r.kind = "Incomplete" \/ Len(b1) < size THEN b1 ELSE Drop(b1, size),
         front |-> IF r.kind = "Incomplete" \/ Len(b1) < size THEN front ELSE PopFront(front, size),
         item |-> IF r.kind = "Incomplete" THEN Decoded("None", "-", <<>>)
                  ELSE IF r.kind = "Frame"
                  THEN Decoded("Frame", "-", make_contiguous(get_body(front, b1, r)))
                  ELSE Decoded("Junk", r.junk, <<>>)]

\* Decoder::decode(src): fill, split_to, read, and the arm of the match
DecodeResult ==
    LET filled_len == copy_len(buf, src)
        b1 == buf \o Take(src, filled_len)
        r == read(front, b1)
        size == ConsumeLen(r)
    IN  [filled |-> filled_len,
         src |-> Drop(src, filled_len),
         panic |-> r.kind # "Incomplete" /\ Len(b1) < size,
         buf |-> IF r.kind = "Incomplete" \/ Len(b1) < size THEN b1 ELSE Drop(b1, size),
         front |-> IF r.kind = "Incomplete" \/ Len(b1) < size THEN front ELSE PopFront(front, size),
         item |-> IF r.kind = "Incomplete" THEN Decoded("None", "-", <<>>)
                  ELSE IF r.kind = "Frame"
                  THEN Decoded("Frame", "-", make_contiguous(get_body(front, b1, r)))
                  ELSE Decoded("Junk", r.junk, <<>>)]

Decode ==
    /\ op.name # "panic"
    /\ Len(got) < 4
    /\ LET d == DecodeResult
       IN  /\ buf' = d.buf
           /\ front' = d.front
           /\ src' = d.src
           /\ op' = IF d.panic THEN Op("panic", 0, 0) ELSE Op("decode", Len(src), d.filled)
           /\ got' = IF sent = <<>> THEN got ELSE Append(got, d.item)
    /\ res' = NoToken
    /\ UNCHANGED <<cap, offered, sent, dst>>

\* earlier traffic: one whole frame arrives at an idle decoder
EarlierFrame(body) ==
    /\ sent = <<>>
    /\ src = <<>>
    /\ buf = <<>>
    /\ offered < MaxItems
    /\ src' = encode(body, <<>>).dst
    /\ offered' = offered + 1
    /\ UNCHANGED <<cap, front, buf, res, op, sent, got, dst>>

\* junk with no occurrence of STX: prop_assume!(!junk.windows(2).any(|s| s == STX))
JunkStrings == {<<0>>, <<STX[2]>>, <<STX[1]>>, <<0, STX[1]>>, <<STX[2], 0>>}

\* tests::test: encode first, append junk, encode last
StartStream(first, junk, last) ==
    /\ sent = <<>>
    /\ src = <<>>
    /\ buf = <<>>
    /\ LET stream == encode(last, encode(first, <<>>).dst \o junk).dst
       IN  /\ Len(stream) <= cap
           /\ src' = stream
    /\ sent' = <<first, junk, last>>
    /\ UNCHANGED <<cap, front, buf, res, op, offered, got, dst>>

NextDecoder ==
    \/ \E body \in Bodies : EarlierFrame(body)
    \/ \E first \in Bodies, junk \in JunkStrings, last \in Bodies : StartStream(first, junk, last)
    \/ Decode

SpecDecoder == DecoderInit /\ [][NextDecoder]_vars

(* The decoder on a stream: the transport appends what arrives to src,     *)
(* frames, oversized headers and junk, faster than decode is called, so    *)
(* that src can hold more than the buffer has room for.                    *)

\* the framework appends the bytes that arrived to the source BytesMut
StreamArrive(item) ==
    /\ sent = <<>>
    /\ offered < MaxItems
    /\ op.name # "panic"
    /\ src' = src \o item
    /\ offered' = offered + 1
    /\ UNCHANGED <<cap, front, buf, res, op, sent, got, dst>>

NextStream ==
    \/ \E item \in Wire : StreamArrive(item)
    \/ Decode

SpecStream == DecoderInit /\ [][NextStream]_vars

----------------------------------------------------------------------------
(* codec.rs: Encoder, called on bodies that fit the length field and on    *)
(* one that does not                                                       *)

\* a body one byte longer than the length field can say
TooLong == [i \in 1..(U16Max + 1) |-> 0]

\* Encoder::encode(item, dst): res keeps what the call returned
Encode(item) ==
    /\ offered < MaxItems
    /\ LET r == encode(item, dst)
       IN  /\ dst' = r.dst
           /\ res' = [kind |-> r.result, junk |-> "-", n |-> Len(item)]
    /\ op' = Op("encode", offered + 1, 0)
    /\ offered' = offered + 1
    /\ UNCHANGED <<cap, front, buf, src, sent, got>>

NextEncoder == \E item \in Bodies \cup {TooLong} : Encode(item)

SpecEncoder == Init /\ [][NextEncoder]_vars

----------------------------------------------------------------------------
(* What the claims are stated in: the logical content of the buffer, read   *)
(* without regard to where the ring wraps                                  *)

IsPrefix(p, s) == Len(p) <= Len(s) /\ p = Take(s, Len(p))
IsSuffix(p, s) == Len(p) <= Len(s) /\ p = Drop(s, Len(s) - Len(p))

\* the big-endian u16 at logical offset i of b
U16At(b, i) == b[i + 1] * 256 + b[i + 2]

\* the frame format: STX | LEN | BODY | CRC(BODY) | ETX
WireFrame(body) ==
    STX \o <<Len(body) \div 256, Len(body) % 256>> \o body
        \o <<Checksum(body) \div 256, Checksum(body) % 256>> \o ETX

BeginsWithStx(b) == Len(b) >= Len(STX) /\ Take(b, Len(STX)) = STX

\* b begins with STX and a length field that announces more than fits
OversizedHeader(b) ==
    /\ Len(b) >= HEADER_SIZE
    /\ BeginsWithStx(b)
    /\ U16At(b, Len(STX)) + HEADER_SIZE + FOOTER_SIZE > cap

\* b begins with a candidate frame that has wholly arrived
CompleteCandidate(b) ==
    /\ Len(b) >= HEADER_SIZE + FOOTER_SIZE
    /\ BeginsWithStx(b)
    /\ U16At(b, Len(STX)) + HEADER_SIZE + FOOTER_SIZE <= cap
    /\ U16At(b, Len(STX)) + HEADER_SIZE + FOOTER_SIZE <= Len(b)

CandidateBody(b) == SubSeq(b, HEADER_SIZE + 1, HEADER_SIZE + U16At(b, Len(STX)))
CandidateCrc(b) == U16At(b, HEADER_SIZE + U16At(b, Len(STX)))
CandidateEtx(b) ==
    SubSeq(b, HEADER_SIZE + U16At(b, Len(STX)) + CRC_SIZE + 1,
              HEADER_SIZE + U16At(b, Len(STX)) + FOOTER_SIZE)

\* the ring wraps strictly inside the logical range [lo, hi)
WrapsInside(lo, hi) == lo < cap - front /\ cap - front < hi /\ hi <= Len(buf)

----------------------------------------------------------------------------
(* C1: junk resynchronization.  With encode(first) ++ junk ++ encode(last)  *)
(* handed to a decoder whose buffer is empty and can hold it, the decode   *)
(* results are Frame(first), one Junk(InvalidStx) that evicts exactly the  *)
(* junk, Frame(last), None.                                                *)
C1_JunkResynchronization ==
    sent # <<>> =>
        LET expected == <<Decoded("Frame", "-", sent[1]),
                          Decoded("Junk", "InvalidStx", <<>>),
                          Decoded("Frame", "-", sent[3]),
                          Decoded("None", "-", <<>>)>>
        IN  /\ \A i \in 1..Len(got) : got[i] = expected[i]
            /\ Len(got) = 2 => buf = WireFrame(sent[3])
            /\ op.name # "panic"

(* C2: back-to-back valid frames, each no larger than the capacity,        *)
(* delivered in chunks and drained after every fill: every frame the loop  *)
(* sees is the next body on the wire, no junk is ever seen, and once all   *)
(* bytes are in and the loop has hit Incomplete no frame is outstanding.   *)
C2_BackToBackFrames ==
    /\ \A i \in 1..Len(got) : got[i].kind = "Frame" /\ got[i].want = <<got[i].body>>
    /\ (src = <<>> /\ op.name = "read" /\ res = Incomplete) => sent = <<>>

(* C3: incremental delivery.  While the buffer holds a proper prefix of a  *)
(* valid frame that fits the capacity, every fill took its whole chunk and *)
(* every read returned Incomplete; once it holds the whole frame, read     *)
(* returns a frame token with the body's size and get_body gives the body. *)
C3_IncrementalDelivery ==
    \A body \in Bodies :
        (Len(WireFrame(body)) <= cap /\ buf # <<>> /\ IsPrefix(buf, WireFrame(body))) =>
            /\ op.name = "fill" => op.ret = op.n
            /\ op.name = "read" =>
                IF buf = WireFrame(body)
                THEN /\ res = FrameToken(Len(body))
                     /\ make_contiguous(get_body(front, buf, res)) = body
                ELSE res = Incomplete

(* C4: round trip.  The encoder emits STX | LEN | BODY | CRC | ETX, and a  *)
(* parser that holds exactly that output, with capacity for it, reads a    *)
(* frame whose get_body slices concatenate to the body.                    *)
C4_RoundTrip ==
    \A body \in Bodies :
        /\ encode(body, <<>>) = [result |-> "Ok", dst |-> WireFrame(body)]
        /\ (buf = WireFrame(body) /\ Len(body) + HEADER_SIZE + FOOTER_SIZE <= cap) =>
                /\ read(front, buf).kind = "Frame"
                /\ make_contiguous(get_body(front, buf, read(front, buf))) = body

(* C5: buffer-capacity boundary.  The buffered length never exceeds the    *)
(* capacity; fill returns min(len(input), capacity - buffered length) and  *)
(* appends exactly that prefix of the input behind the content it leaves   *)
(* untouched; what it did not take stays with the caller, in order, across *)
(* reads and consumes, so no input byte is lost, duplicated or reordered.  *)
C5_FillStep == op'.name = "fill" /\ offered' = offered /\ <<op, buf, src>>' # <<op, buf, src>>

C5_BufferCapacityBoundary ==
    [][/\ Len(buf') <= cap'
       /\ C5_FillStep =>
            /\ op'.ret = Min(op'.n, cap - Len(buf))
            /\ buf' = buf \o Take(src, op'.ret)
            /\ src' = Drop(src, op'.ret)
            /\ front' = front
       /\ (offered' = offered /\ ~C5_FillStep) =>
            /\ src' = src
            /\ IsSuffix(buf', buf)]_vars

\* fill took fewer bytes than offered, and the buffer is now full
C5_ShortFill == op.name = "fill" /\ 0 < op.ret /\ op.ret < op.n /\ Len(buf) = cap

(* C6, as claimed: content that begins with STX and a length field L with  *)
(* L + 8 > capacity is rejected as Junk(InvalidLength), eviction length 2, *)
(* as soon as the 4-byte header is buffered.                               *)
C6_OversizedRejectedAtHeader ==
    OversizedHeader(buf) => read(front, buf) = Junk(Len(STX), "InvalidLength")

(* C6, amended: such content is rejected as Junk(InvalidLength), eviction  *)
(* length 2, as soon as 8 bytes (header and footer size) are buffered,     *)
(* without waiting for the L + 8 bytes announced; while fewer than 8 bytes *)
(* are buffered read returns Incomplete.  It never returns a frame.        *)
C6_OversizedRejectedAtEight ==
    OversizedHeader(buf) =>
        read(front, buf) = IF Len(buf) >= HEADER_SIZE + FOOTER_SIZE
                           THEN Junk(Len(STX), "InvalidLength")
                           ELSE Incomplete

\* read has rejected an oversized header with less than the announced frame buffered
C6_OversizedRejected ==
    /\ op.name = "read"
    /\ OversizedHeader(buf)
    /\ res = Junk(Len(STX), "InvalidLength")
    /\ Len(buf) < U16At(buf, Len(STX)) + HEADER_SIZE + FOOTER_SIZE

(* C7: checksum tamper detection.  A complete candidate frame with the     *)
(* right ETX whose stored CRC differs from the checksum of its logical     *)
(* body bytes [4, 4+L) is read as Junk(InvalidCrc), eviction length 2,     *)
(* never as a frame.                                                       *)
C7_ChecksumTamperDetected ==
    (/\ CompleteCandidate(buf)
     /\ CandidateEtx(buf) = ETX
     /\ CandidateCrc(buf) # Checksum(CandidateBody(buf)))
        => read(front, buf) = Junk(Len(STX), "InvalidCrc")

(* C8: end-marker tamper detection.  A complete candidate frame whose two  *)
(* bytes at logical offset 4+L+2 are not ETX is read as Junk(InvalidEtx),  *)
(* eviction length 2, whether or not its CRC matches and wherever the ring *)
(* wraps.                                                                  *)
C8_EndMarkerTamperDetected ==
    (CompleteCandidate(buf) /\ CandidateEtx(buf) # ETX)
        => read(front, buf) = Junk(Len(STX), "InvalidEtx")

\* read has rejected a frame whose corrupted end marker straddles the wrap
\* and whose checksum is wrong as well
C8_StraddlingEtxRejected ==
    /\ op.name = "read"
    /\ res = Junk(Len(STX), "InvalidEtx")
    /\ CompleteCandidate(buf)
    /\ CandidateCrc(buf) # Checksum(CandidateBody(buf))
    /\ WrapsInside(HEADER_SIZE + U16At(buf, Len(STX)) + CRC_SIZE,
                   HEADER_SIZE + U16At(buf, Len(STX)) + FOOTER_SIZE)

(* C9: encoder failure emits nothing.  encode of a body longer than 65535  *)
(* bytes returns an error and leaves the destination as it was; otherwise  *)
(* it returns Ok and appends exactly one whole frame.                      *)
C9_EncodeStep == op'.name = "encode" /\ offered' = offered + 1

C9_EncoderFailureEmitsNothing ==
    [][C9_EncodeStep =>
        IF res'.n > U16Max
        THEN res'.kind = "Err" /\ dst' = dst
        ELSE /\ res'.kind = "Ok"
             /\ \E body \in Bodies : Len(body) = res'.n /\ dst' = dst \o WireFrame(body)]_vars

(* C10: read never changes the buffer.  Whatever read returns, the         *)
(* buffered length and content, and the ring position, are what they were  *)
(* before the call, and a second read of that buffer returns the same.     *)
C10_ReadStep == op'.name = "read" /\ <<op, res>>' # <<op, res>>

C10_ReadLeavesBuffer ==
    [][C10_ReadStep =>
        /\ buf' = buf
        /\ front' = front
        /\ src' = src
        /\ res' = read(front', buf')]_vars

\* read has returned a junk token and the bytes it names are still buffered
C10_JunkStillBuffered ==
    /\ op.name = "read"
    /\ res.kind = "Junk"
    /\ Len(buf) >= HEADER_SIZE + FOOTER_SIZE
    /\ res.n <= Len(buf)

(* C11: consume evicts exactly the token's byte count from the front.  A   *)
(* token converted from a frame token with body size L carries L + 8, a   *)
(* junk token its skip length n; after a consume with a count no larger   *)
(* than the buffered length the content is the previous content without   *)
(* its first n bytes, the rest unchanged and in order.                     *)
C11_ConsumeStep == res.kind \in {"Frame", "Junk"} /\ res' = NoToken

C11_ConsumeEvictsExactly ==
    [][C11_ConsumeStep =>
        LET n == IF res.kind = "Frame" THEN res.n + 8 ELSE res.n
        IN  n <= Len(buf) =>
                /\ op' = Op("consume", n, 0)
                /\ Len(buf') = Len(buf) - n
                /\ buf = SubSeq(buf, 1, n) \o buf'
                /\ src' = src]_vars

\* a whole frame has been consumed from in front of bytes that stay buffered
C11_FrameConsumed ==
    /\ op.name = "consume"
    /\ op.n >= HEADER_SIZE + FOOTER_SIZE + 1
    /\ buf # <<>>

(* C12: the STX search finds the first occurrence in the logical content.  *)
(* For every buffer and every split of it into the two slices of data(),  *)
(* find_stx returns the smallest logical offset p with bytes p, p+1 equal *)
(* to EB 90, also when the two bytes straddle the slices, and None only   *)
(* if the concatenated content has no such offset.                         *)
C12_FindStxFirstOccurrence == find_stx(front, buf) = WindowsPosition(buf)

(* C13: the body view is layout-independent.  For a frame token with body *)
(* size L returned by read, the two slices of get_body concatenate to the *)
(* logical bytes [4, 4+L) of the buffer and have length L together,       *)
(* wherever the ring wraps, also strictly inside the body.                 *)
C13_BodyViewLayoutIndependent ==
    (op.name = "read" /\ res.kind = "Frame") =>
        /\ Len(make_contiguous(get_body(front, buf, res))) = res.n
        /\ make_contiguous(get_body(front, buf, res))
                = SubSeq(buf, HEADER_SIZE + 1, HEADER_SIZE + res.n)

(* C14: InvalidStx skip lengths.  With at least 8 bytes buffered: if the   *)
(* logical content has no STX, read returns Junk(InvalidStx) with eviction *)
(* length buffered length - 1; if the first STX is at logical offset       *)
(* p > 0, read returns Junk(InvalidStx) with eviction length p.  No byte   *)
(* at or after the first STX is evicted.                                   *)
C14_InvalidStxSkipLengths ==
    Len(buf) >= HEADER_SIZE + FOOTER_SIZE =>
        /\ WindowsPosition(buf) = -1 => read(front, buf) = Junk(Len(buf) - 1, "InvalidStx")
        /\ WindowsPosition(buf) > 0 => read(front, buf) = Junk(WindowsPosition(buf), "InvalidStx")

(* C15, as claimed: read returns Incomplete only when fewer than 8 bytes   *)
(* are buffered; with at least 8 bytes buffered it returns a frame token   *)
(* or a Junk result.                                                       *)
C15_IncompleteOnlyBelowEight ==
    Len(buf) >= HEADER_SIZE + FOOTER_SIZE => read(front, buf).kind \in {"Frame", "Junk"}

(* C15, amended: read returns Incomplete exactly when fewer than 8 bytes   *)
(* are buffered, or the content begins with STX and a length field L with  *)
(* L + 8 <= capacity and fewer than L + 8 bytes are buffered; in every     *)
(* other state it returns a frame token or a Junk result.                  *)
C15_IncompleteWhileFrameArrives ==
    /\ read(front, buf).kind \in {"Incomplete", "Frame", "Junk"}
    /\ read(front, buf) = Incomplete <=>
            \/ Len(buf) < 8
            \/ /\ BeginsWithStx(buf)
               /\ U16At(buf, 2) + 8 <= cap
               /\ Len(buf) < U16At(buf, 2) + 8

\* read has returned Incomplete for a frame of which 8 bytes or more are in
C15_PartialFrameWaits ==
    /\ op.name = "read"
    /\ res = Incomplete
    /\ Len(buf) >= HEADER_SIZE + FOOTER_SIZE
    /\ IsPrefix(buf, WireFrame(Ones(MaxBody)))

(* C16: drain loop progress and termination.  Every Junk that read returns *)
(* carries an eviction length n with 1 <= n <= buffered length, exactly 2  *)
(* for InvalidLength, InvalidEtx and InvalidCrc, and every frame token     *)
(* converts to a length <= buffered length; so a consume of a token read   *)
(* returned does not fail and strictly shortens the buffer, and with no    *)
(* fill in between, read-then-consume reaches Incomplete.                  *)
C16_TokenFits ==
    LET r == read(front, buf)
    IN  /\ r.kind = "Junk" =>
            /\ 1 <= r.n /\ r.n <= Len(buf)
            /\ r.junk \in {"InvalidLength", "InvalidEtx", "InvalidCrc"} => r.n = 2
        /\ r.kind = "Frame" => r.n + 8 <= Len(buf)

C16_EvictStep == op.name = "read" /\ res.kind \in {"Frame", "Junk"} /\ res' = NoToken

C16_DrainLoopTerminates ==
    /\ []C16_TokenFits
    /\ [][C16_EvictStep => (op'.name = "consume" /\ Len(buf') < Len(buf))]_vars
    /\ (op.name = "fill") ~> (op.name = "read" /\ res = Incomplete)

\* the loop has evicted bytes and left less than a frame's overhead buffered
C16_DrainedBelowEight ==
    /\ op.name = "consume"
    /\ op.n >= 1
    /\ buf # <<>>
    /\ Len(buf) < HEADER_SIZE + FOOTER_SIZE
    /\ read(front, buf) = Incomplete

(* C17: over-eviction fails loudly.  A consume whose byte count is greater *)
(* than the buffered length, as with a junk token kept across another      *)
(* consume, panics and evicts nothing: content, length and ring position   *)
(* are what they were, and no call on the parser follows the panic.        *)
C17_ConsumeCount ==
    IF got # <<>> /\ got' = <<>> THEN got[1].n
    ELSE IF res.kind \in {"Frame", "Junk"} /\ res' = NoToken /\ got' = got
         THEN (IF res.kind = "Frame" THEN res.n + 8 ELSE res.n)
         ELSE -1

C17_OverEvictionPanics ==
    [][/\ op.name = "panic" => <<cap, front, buf, res, op>>' = <<cap, front, buf, res, op>>
       /\ C17_ConsumeCount > Len(buf) =>
            /\ op' = Op("panic", C17_ConsumeCount, 0)
            /\ buf' = buf
            /\ front' = front
       /\ (C17_ConsumeCount >= 0 /\ C17_ConsumeCount <= Len(buf)) =>
            /\ op'.name = "consume"
            /\ Len(buf') = Len(buf) - C17_ConsumeCount]_vars

\* a kept token that names more bytes than are buffered has met the assert
C17_KeptTokenPanicked ==
    /\ op.name = "panic"
    /\ op.n > Len(buf)
    /\ buf # <<>>
    /\ got = <<>>

(* C18: acceptance is sound.  In every reachable buffer and layout, read   *)
(* returns a frame token with body size L only if the logical content      *)
(* begins with STX, its length field is L, L + 8 is at most the capacity   *)
(* and the buffered length, the two bytes at offset 4+L+2 are ETX, and the *)
(* u16 at offset 4+L is the checksum of the whole logical range [4, 4+L).  *)
C18_AcceptanceSound ==
    read(front, buf).kind = "Frame" =>
        LET L == read(front, buf).n
        IN  /\ BeginsWithStx(buf)
            /\ Len(buf) >= HEADER_SIZE
            /\ U16At(buf, Len(STX)) = L
            /\ L + 8 <= cap
            /\ L + 8 <= Len(buf)
            /\ CandidateEtx(buf) = ETX
            /\ CandidateCrc(buf) = Checksum(SubSeq(buf, 5, 4 + L))

(* C19: no stall on a full buffer.  With a capacity of at least 8, when    *)
(* the buffer is full, so that fill would accept nothing, read does not    *)
(* return Incomplete: it returns a frame, or a Junk with a positive        *)
(* eviction length, so the caller can always free space.                   *)
C19_NoStallOnFullBuffer ==
    (cap >= 8 /\ Len(buf) = cap) =>
        /\ read(front, buf).kind \in {"Frame", "Junk"}
        /\ read(front, buf).n + (IF read(front, buf).kind = "Frame" THEN 8 ELSE 0) \in 1..Len(buf)

\* the caller holds input the full buffer did not take, and read gave a token
C19_FullBufferDrains ==
    /\ op.name = "read"
    /\ Len(buf) = cap
    /\ src # <<>>
    /\ res.kind \in {"Frame", "Junk"}
    /\ BeginsWithStx(buf)

(* C20: decoder byte conservation.  Every decode call removes from the     *)
(* source exactly the bytes the parser accepted, so the bytes evicted,     *)
(* then the buffer content, then the remaining source are the bytes that   *)
(* were in buffer and source before the call; a call that returns Frame    *)
(* has evicted the body size + 8 bytes, one that returns Junk the skip     *)
(* length, one that returns None nothing.                                  *)
C20_DecodeStep == offered' = offered /\ <<buf, src, front, op>>' # <<buf, src, front, op>>

C20_DecoderByteConservation ==
    [][C20_DecodeStep =>
        LET accepted == Min(Len(src), cap - Len(buf))
            held == buf \o SubSeq(src, 1, accepted)
            r == read(front, held)
            evicted == Len(held) - Len(buf')
        IN  /\ op' = Op("decode", Len(src), accepted)
            /\ src' = SubSeq(src, accepted + 1, Len(src))
            /\ evicted \in 0..Len(held)
            /\ SubSeq(held, 1, evicted) \o buf' \o src' = buf \o src
            /\ evicted = (IF r.kind = "Frame" THEN r.n + 8
                          ELSE IF r.kind = "Junk" THEN r.n
                          ELSE 0)]_vars

\* decode left bytes in the source that the buffer had no room for
C20_SourceKeepsRest ==
    /\ op.name = "decode"
    /\ 0 < op.ret
    /\ op.ret < op.n
    /\ src # <<>>

====
